---- MODULE Spec2Model ----
(***************************************************************************)
(* Application lifecycle of the freelance-marketplace backend:             *)
(* ProjectService.applyToProject / assignProject and ApplicationService    *)
(* evaluate / approve / reject / withdraw / getApplicationById /           *)
(* getApplications / calculatePriorityScore, run as concurrent request     *)
(* handlers over one shared store.  Each handler is cut                    *)
(* at its database statements (its awaits): one action per statement, the  *)
(* synchronous checks that follow a read belong to the action of the read. *)
(***************************************************************************)
EXTENDS Integers, FiniteSets, Sequences, TLC

\* ------------------------------------------------------------------ bounds
\* requests (and runs of the deadline policy) served in one behaviour
MaxRequests == 2
\* logins served in one behaviour
MaxLogins == 6
\* the last minute of the clock
MaxClock == 60

\* ------------------------------------------------------------------ users
NoUser == 0
Professionals == {1, 2}
Clients == {101, 102}
Admins == {201}
\* one user of a role the handlers do not name (super_admin, gerencia)
SuperAdmins == {301}
Users == Professionals \cup Clients \cup Admins \cup SuperAdmins

\* User.role
RoleOf(u) == IF u \in Professionals THEN "professional"
             ELSE IF u \in Clients THEN "client"
             ELSE IF u \in Admins THEN "admin"
             ELSE "super_admin"

\* ------------------------------------------------------------------ store
Projects == {"j1"}
NoProject == "none"
\* Project.client_id
ClientOf(j) == 101

\* an application row is identified by its (professional_id, project_id)
\* pair: the unique index admits one row per pair
AppIds == Professionals \X Projects
NoApp == <<NoUser, NoProject>>
ProfessionalOf(a) == a[1]
ProjectOf(a) == a[2]

OpenStatuses == {"pending", "under_review"}
FinalStatuses == {"accepted", "rejected", "withdrawn", "expired"}

NoReason == "none"
ReasonOtherSelected == "Se selecciono otro profesional para el proyecto"
ReasonAssigned == "Se selecciono otro profesional"
ReasonClient == "client reason"
ReasonDefault == "No especificado"

\* rejectionData.reason || 'No especificado'
rejectionReason(reason) == IF reason = NoReason THEN ReasonDefault ELSE reason

ProposedRates == {1}
FinalRates == {0, 3}

\* no score computed yet
NotScored == -1
\* the priority_score the beforeCreate hook gives a new application, in
\* tenths of a point
BaselineScore == 500
\* the priority_score values an evaluation is sent with, in tenths of a point
EvaluateScores == {0, 1000, 1001}
\* the one sent where the score takes no part
LifecycleScores == {1000}

\* copies: the rows the table holds for the pair; scored_days: the age the
\* application had for the calculatePriorityScore that wrote its
\* priority_score, if one wrote it
NoRow == [status |-> "none", reviewed_by |-> NoUser, reviewed_at |-> FALSE,
          rejection_reason |-> NoReason, proposed_rate |-> 0, copies |-> 0,
          priority_score |-> 0, scored_days |-> NotScored]

\* what a handler uses of the application instance it loaded
NoSnap == [status |-> "none", proposed_rate |-> 0]
SnapOf(row) == [status |-> row.status, proposed_rate |-> row.proposed_rate]

NewProject == [status |-> "open", assigned_professional_id |-> NoUser,
               final_amount |-> 0, application_count |-> 0]

\* Application instance methods
canBeWithdrawn(row) == row.status \in {"pending", "under_review"}
canBeAcceptedOrWithdrawn(row) == row.status \in {"pending", "under_review", "withdrawn"}
canBeAccepted(row) == row.status \in {"pending", "under_review"}
canBeEvaluated(row) == row.status = "pending"
isFinalized(row) == row.status \in FinalStatuses

\* ------------------------------------------------- priority score
\* points of score are counted in tenths (86.5 points: 865), an average
\* rating in tenths of a star (4.5 stars: 45), completion_rate in percent
Min(a, b) == IF a < b THEN a ELSE b
Max(a, b) == IF a > b THEN a ELSE b

RECURSIVE Sum(_)
Sum(ratings) == IF ratings = <<>> THEN 0 ELSE Head(ratings) + Sum(Tail(ratings))

\* Professional.getAverageRating: 0 without reviews, else the mean rounded to
\* one decimal
getAverageRating(reviews) ==
  IF Len(reviews) = 0 THEN 0
  ELSE (2 * 10 * Sum(reviews) + Len(reviews)) \div (2 * Len(reviews))

\* a user without a professionalProfile
NoProfile == [present |-> FALSE, experience_years |-> 0, reviews |-> <<>>,
              completion_rate |-> 0]

\* an association the query did not include
NotIncluded == [included |-> FALSE, budget_max |-> 0]

\* what calculatePriorityScore's Application.findByPk returns for a row, its
\* professional and its project: the include list names the professional and
\* the professional's profile, and not the project
findByPkForScore(row, profile, project) ==
  [proposed_rate |-> row.proposed_rate, priority_score |-> row.priority_score,
   professional |-> profile, project |-> NotIncluded]

\* the score calculatePriorityScore has added up before it clamps it
unclampedPriorityScore(application, daysOld) ==
  LET professional == application.professional
      averageRating == getAverageRating(professional.reviews)
      base == 500
      withProfile ==
        IF professional.present
        THEN base + Min(professional.experience_years * 2, 20) * 10
                  + (IF averageRating # 0 THEN (averageRating - 30) * 5 ELSE 0)
                  + (IF professional.completion_rate # 0
                     THEN professional.completion_rate ELSE 0)
        ELSE base
      withRate ==
        IF /\ application.project.included
           /\ application.proposed_rate # 0
           /\ application.project.budget_max # 0
        THEN (IF 10 * application.proposed_rate <= 8 * application.project.budget_max
              THEN withProfile + 100
              ELSE IF 10 * application.proposed_rate <= 9 * application.project.budget_max
              THEN withProfile + 50
              ELSE withProfile)
        ELSE withProfile
  IN IF daysOld > 1 THEN withRate - (daysOld - 1) * 50 ELSE withRate

\* a scorer that does not clamp
calculatePriorityScoreUnclamped(application, daysOld) ==
  unclampedPriorityScore(application, daysOld)

\* a scorer that starts from the stored priority_score
calculatePriorityScoreFromStored(application, daysOld) ==
  Max(0, Min(1000, unclampedPriorityScore(application, daysOld) - 500
                     + application.priority_score))

\* the score calculatePriorityScore returns and stores for the application it
\* loaded
calculatePriorityScore(application, daysOld) ==
  Max(0, Min(1000, unclampedPriorityScore(application, daysOld)))

\* the inputs the scorer is run on
ExperienceYears == {0, 5, 12}
ReviewSets == {<<>>, <<1>>, <<5>>, <<4, 5>>, <<2, 3, 3>>}
CompletionRates == {0, 90, 100}
ScoredRates == {0, 800, 850, 950}
BudgetMaxes == {0, 1000}
DaysOld == {0, 1, 2, 30}

ScoreInputs ==
  [present : BOOLEAN, experience_years : ExperienceYears, reviews : ReviewSets,
   completion_rate : CompletionRates, proposed_rate : ScoredRates,
   budget_max : BudgetMaxes, daysOld : DaysOld, score : {NotScored}]

\* no run of the scorer on its own
NoScoring == [present |-> FALSE, experience_years |-> 0, reviews |-> <<>>,
              completion_rate |-> 0, proposed_rate |-> 0, budget_max |-> 0,
              daysOld |-> 0, score |-> NotScored]

\* ------------------------------------------------- AuthService.login, its state
\* locked_until: null
NoTime == -1
\* handleFailedLogin: maxAttempts, and lockoutTime in minutes
maxAttempts == 5
lockoutTime == 30

\* User.login_attempts (defaultValue 0), User.locked_until, User.is_active
NewUser == [login_attempts |-> 0, locked_until |-> NoTime, is_active |-> TRUE]

\* a login not started; `attempts` and `active` are login_attempts and
\* is_active of the instance User.findOne returned
NoSession == [pc |-> "idle", password |-> "none", attempts |-> 0, active |-> FALSE,
              result |-> "none"]

\* the user row, the clock in minutes, the logins in flight, the logins
\* started, and the wrong passwords checked since the last login that
\* succeeded
LoginState(user) == [user |-> user, now |-> 0, session |-> <<NoSession, NoSession>>,
                     logins |-> 0, wrong |-> 0]
NoLogin == LoginState(NewUser)

VARIABLES apps, projects, req, started, scoring, login

vars == <<apps, projects, req, started, scoring, login>>

\* the handlers that can be in flight together
Slots == {1, 2}

\* the store as a handler found it at its first read; none kept
NoPre == [apps |-> <<>>, projects |-> <<>>]

\* the project attributes getApplicationById includes with the application
NoProjectSnap == [status |-> "none", client_id |-> NoUser]
ProjectSnap(j) == [status |-> projects[j].status, client_id |-> ClientOf(j)]

Idle == [op |-> "none", pc |-> "idle", actor |-> NoUser, app |-> NoApp,
         proj |-> NoProject, final_rate |-> 0, result |-> "none",
         snap |-> NoSnap, psnap |-> NoProjectSnap, pre |-> NoPre, alone |-> TRUE,
         rows |-> {}, score |-> NotScored, days |-> 0, notified |-> "none"]

InFlight(r) == r.pc \notin {"idle", "done"}

\* no other handler is between its first read and its return on project j
Isolated(s, j) == \A t \in Slots \ {s} : ~(InFlight(req[t]) /\ req[t].proj = j)

\* a step of slot s (0: the deadline policy) that reads or writes project j
\* ends the isolation of every other handler of that project, in flight or
\* returned: `alone` says that nothing else has touched the project since
\* the handler's first read
Disturb(rq, s, j) ==
  [t \in Slots |-> IF t # s /\ rq[t].pc # "idle" /\ rq[t].proj = j
                   THEN [rq[t] EXCEPT !.alone = FALSE, !.pre = NoPre] ELSE rq[t]]

Stored == [apps |-> apps, projects |-> projects]

\* the store after the professionals of `applied` have each applied once
\* to an open project, one after the other
Submitted(applied) ==
  /\ apps = [a \in AppIds |->
               IF a \in applied
               THEN [NoRow EXCEPT !.status = "pending", !.proposed_rate = 1, !.copies = 1,
                                  !.priority_score = BaselineScore]
               ELSE NoRow]
  /\ projects = [j \in Projects |->
                   [NewProject EXCEPT !.application_count =
                      Cardinality({a \in applied : ProjectOf(a) = j})]]

Init ==
  /\ \E applied \in SUBSET AppIds : Submitted(applied)
  /\ req = [s \in Slots |-> Idle]
  /\ started = 0
  /\ scoring = NoScoring
  /\ login = NoLogin

\* a handler that has thrown or returned, with its response
Finish(r, res) == [r EXCEPT !.pc = "done", !.result = res, !.final_rate = 0]

\* the worker that takes the next request: the first that is idle, once the
\* responses of the finished handlers have been sent
Free(s) ==
  /\ \A t \in Slots : req[t].pc # "done"
  /\ req[s].pc = "idle"
  /\ \A t \in Slots : t < s => InFlight(req[t])
  /\ started < MaxRequests

\* the first statement of a handler: the route's role check, the first
\* read, and the handler's own checks of what it read
Begin(s, r) ==
  /\ Free(s)
  /\ req' = [Disturb(req, s, r.proj) EXCEPT ![s] =
               IF r.pc = "done" THEN [r EXCEPT !.alone = TRUE] ELSE r]
  /\ started' = started + 1
  /\ UNCHANGED <<apps, projects, scoring, login>>

\* ------------------------------------------------- ProjectService.applyToProject
SubmitStartAnyStatus(s, u, j, late) ==
  Begin(s, LET r0 == [Idle EXCEPT !.op = "submit", !.actor = u, !.proj = j,
                                  !.app = <<u, j>>, !.alone = Isolated(s, j)]
           IN IF RoleOf(u) # "professional" THEN Finish(r0, "forbidden_role")
              ELSE IF late THEN Finish(r0, "deadline_passed")
              ELSE [r0 EXCEPT !.pc = "findExisting"])

\* route check, Project.findByPk, status check, deadline check (late: the
\* project's application_deadline has passed)
SubmitStart(s, u, j, late) ==
  Begin(s, LET r0 == [Idle EXCEPT !.op = "submit", !.actor = u, !.proj = j,
                                  !.app = <<u, j>>, !.alone = Isolated(s, j)]
           IN IF RoleOf(u) # "professional" THEN Finish(r0, "forbidden_role")
              ELSE IF projects[j].status # "open" THEN Finish(r0, "project_not_open")
              ELSE IF late THEN Finish(r0, "deadline_passed")
              ELSE [r0 EXCEPT !.pc = "findExisting"])

\* Application.findOne, existing and own-project checks
SubmitFindExisting(s) ==
  /\ req[s].op = "submit" /\ req[s].pc = "findExisting"
  /\ LET r == req[s]
     IN req' = [req EXCEPT ![s] =
                  IF apps[r.app].status # "none" THEN Finish(r, "duplicate_application")
                  ELSE IF ClientOf(r.proj) = r.actor THEN Finish(r, "own_project")
                  ELSE [r EXCEPT !.pc = "create"]]
  /\ UNCHANGED <<apps, projects, started, scoring, login>>

\* the unique index on (professional_id, project_id) admits a row of pair a
uniqueIndexAdmitsAll(ap, a) == TRUE

uniqueIndexAdmits(ap, a) == ap[a].copies = 0

\* Application.create: the unique index rejects a second row of the pair
SubmitCreate(s, rate) ==
  /\ req[s].op = "submit" /\ req[s].pc = "create"
  /\ LET r == req[s]
     IN IF ~uniqueIndexAdmits(apps, r.app)
        THEN /\ req' = [req EXCEPT ![s] = Finish(r, "unique_violation")]
             /\ UNCHANGED apps
        ELSE /\ apps' = [apps EXCEPT ![r.app] =
                           [NoRow EXCEPT !.status = "pending", !.proposed_rate = rate,
                                         !.copies = apps[r.app].copies + 1,
                                         !.priority_score = BaselineScore]]
             /\ req' = [Disturb(req, s, r.proj) EXCEPT ![s] = [r EXCEPT !.pc = "increment"]]
  /\ UNCHANGED <<projects, started, scoring, login>>

\* a submit that returns without counting its application
SubmitIncrementSkipped(s) ==
  /\ req[s].op = "submit" /\ req[s].pc = "increment"
  /\ req' = [Disturb(req, s, req[s].proj) EXCEPT ![s] = Finish(req[s], "ok")]
  /\ UNCHANGED <<apps, projects, started, scoring, login>>

\* project.increment('application_count')
SubmitIncrement(s) ==
  /\ req[s].op = "submit" /\ req[s].pc = "increment"
  /\ LET r == req[s]
     IN /\ projects' = [projects EXCEPT ![r.proj].application_count = @ + 1]
        /\ req' = [Disturb(req, s, r.proj) EXCEPT ![s] = Finish(r, "ok")]
  /\ UNCHANGED <<apps, started, scoring, login>>

\* ------------------------------------------------- ApplicationService
canUserAccessApplicationAnyClient(a, psnap, userId, userRole) ==
  IF userRole = "admin" THEN TRUE
  ELSE IF userRole = "professional" THEN ProfessionalOf(a) = userId
  ELSE IF userRole = "client" THEN TRUE
  ELSE FALSE

canUserAccessApplicationOrOtherRole(a, psnap, userId, userRole) ==
  IF userRole = "admin" THEN TRUE
  ELSE IF userRole = "professional" THEN ProfessionalOf(a) = userId
  ELSE IF userRole = "client" THEN psnap.client_id = userId
  ELSE TRUE

canUserAccessApplication(a, psnap, userId, userRole) ==
  IF userRole = "admin" THEN TRUE
  ELSE IF userRole = "professional" THEN ProfessionalOf(a) = userId
  ELSE IF userRole = "client" THEN psnap.client_id = userId
  ELSE FALSE

\* getApplicationById: findByPk with the project included, then the access
\* check; the request of slot s gets the rows it read, or the error thrown
Load(r0, a, userId, userRole) ==
  IF a \notin AppIds \/ apps[a].status = "none" THEN Finish(r0, "not_found")
  ELSE IF ~canUserAccessApplication(a, ProjectSnap(ProjectOf(a)), userId, userRole)
       THEN Finish(r0, "no_permission")
  ELSE [r0 EXCEPT !.pc = "loaded", !.snap = SnapOf(apps[a]),
                  !.psnap = ProjectSnap(ProjectOf(a))]

NewRequest(s, op, u, a) ==
  [Idle EXCEPT !.op = op, !.actor = u, !.app = a, !.proj = ProjectOf(a),
               !.alone = Isolated(s, ProjectOf(a))]

\* GET /:applicationId
GetStart(s, u, a) ==
  Begin(s, LET r == Load(NewRequest(s, "get", u, a), a, u, RoleOf(u))
           IN IF r.pc = "loaded" THEN Finish(r, "ok") ELSE r)

\* getApplications: the rows Application.findAndCountAll returns for the
\* where clause built from the role and the filters (a page holds them all)
getApplications(ap, filters, userRole, userId) ==
  {a \in AppIds :
     /\ ap[a].status # "none"
     /\ userRole = "professional" => ProfessionalOf(a) = userId
     /\ userRole = "client" => ClientOf(ProjectOf(a)) = userId
     /\ filters.project_id # NoProject => ProjectOf(a) = filters.project_id
     /\ (filters.professional_id # NoUser /\ userRole # "professional")
          => ProfessionalOf(a) = filters.professional_id}

\* GET /
ListStart(s, u, fp, fj) ==
  Begin(s, [Finish([Idle EXCEPT !.op = "list", !.actor = u], "ok")
              EXCEPT !.rows = getApplications(apps, [professional_id |-> fp, project_id |-> fj],
                                              RoleOf(u), u)])

\* application.update(values): UPDATE applications SET values WHERE id
UpdateApplication(s, nextpc, row) ==
  /\ apps' = [apps EXCEPT ![req[s].app] = row]
  /\ req' = [Disturb(req, s, req[s].proj) EXCEPT ![s] =
               IF nextpc = "done" THEN Finish(req[s], "ok")
               ELSE [req[s] EXCEPT !.pc = nextpc]]
  /\ UNCHANGED <<projects, started, scoring, login>>

\* PUT /:applicationId/evaluate, evaluateApplication
\* evaluateApplicationSchema: priority_score is a number of 0 to 100
evaluateApplicationSchema(priority_score) == priority_score >= 0 /\ priority_score <= 1000

\* priority_score: the score of the request body; the handler runs for the
\* bodies validateSchema lets through
EvaluateStart(s, u, a, priority_score) ==
  /\ evaluateApplicationSchema(priority_score)
  /\ Begin(s, IF RoleOf(u) # "client"
           THEN Finish(NewRequest(s, "evaluate", u, a), "forbidden_role")
           ELSE LET r == Load(NewRequest(s, "evaluate", u, a), a, u, "client")
                IN IF r.pc # "loaded" THEN r
                   ELSE IF ~canBeAccepted(r.snap) THEN Finish(r, "invalid_state")
                   ELSE [r EXCEPT !.pc = "update", !.score = priority_score])

EvaluateUpdate(s) ==
  /\ req[s].op = "evaluate" /\ req[s].pc = "update"
  /\ UpdateApplication(s, "done",
       [apps[req[s].app] EXCEPT !.priority_score = req[s].score,
                                !.scored_days = NotScored,
                                !.status = "under_review",
                                !.reviewed_by = req[s].actor,
                                !.reviewed_at = TRUE])

\* PUT /:applicationId/reject, rejectApplication
RejectStart(s, u, a) ==
  Begin(s, IF RoleOf(u) # "client"
           THEN Finish(NewRequest(s, "reject", u, a), "forbidden_role")
           ELSE LET r == Load(NewRequest(s, "reject", u, a), a, u, "client")
                IN IF r.pc # "loaded" THEN r
                   ELSE IF r.snap.status \notin {"pending", "under_review"}
                        THEN Finish(r, "invalid_state")
                   ELSE IF r.psnap.client_id # u THEN Finish(r, "not_owner")
                   ELSE [r EXCEPT !.pc = "update"])

\* a reject that also rejects the siblings
RejectUpdateSiblings(s) ==
  /\ req[s].op = "reject" /\ req[s].pc = "update"
  /\ apps' = [b \in AppIds |->
              IF ProjectOf(b) = req[s].proj /\ apps[b].status \in OpenStatuses
              THEN [apps[b] EXCEPT !.status = "rejected", !.reviewed_at = TRUE,
                                   !.reviewed_by = req[s].actor,
                                   !.rejection_reason = ReasonClient]
              ELSE apps[b]]
  /\ req' = [Disturb(req, s, req[s].proj) EXCEPT ![s] = Finish(req[s], "ok")]
  /\ UNCHANGED <<projects, started, scoring, login>>

RejectUpdate(s) ==
  /\ req[s].op = "reject" /\ req[s].pc = "update"
  /\ UpdateApplication(s, "done",
       [apps[req[s].app] EXCEPT !.status = "rejected",
                                !.reviewed_at = TRUE,
                                !.reviewed_by = req[s].actor,
                                !.rejection_reason = rejectionReason(ReasonClient)])

\* PUT /:applicationId/withdraw, withdrawApplication
WithdrawStart(s, u, a) ==
  Begin(s, IF RoleOf(u) # "professional"
           THEN Finish(NewRequest(s, "withdraw", u, a), "forbidden_role")
           ELSE LET r == Load(NewRequest(s, "withdraw", u, a), a, u, "professional")
                IN IF r.pc # "loaded" THEN r
                   ELSE IF ~canBeWithdrawn(r.snap) THEN Finish(r, "invalid_state")
                   ELSE IF ProfessionalOf(a) # u THEN Finish(r, "not_owner")
                   ELSE [r EXCEPT !.pc = "update"])

\* a withdraw that records who withdrew as the reviewer
WithdrawUpdateReviewed(s) ==
  /\ req[s].op = "withdraw" /\ req[s].pc = "update"
  /\ UpdateApplication(s, "done", [apps[req[s].app] EXCEPT !.status = "withdrawn",
                                                          !.reviewed_at = TRUE,
                                                          !.reviewed_by = req[s].actor])

WithdrawUpdate(s) ==
  /\ req[s].op = "withdraw" /\ req[s].pc = "update"
  /\ UpdateApplication(s, "done", [apps[req[s].app] EXCEPT !.status = "withdrawn"])

\* rejectOtherApplications: one UPDATE ... WHERE project_id = projectId
\* AND id <> acceptedApplicationId AND status IN statuses
rejectOtherPendingOnly(ap, projectId, acceptedApplicationId, rejectorId, reason, statuses) ==
  [a \in AppIds |->
     IF ProjectOf(a) = projectId /\ a # acceptedApplicationId /\ ap[a].status = "pending"
     THEN [ap[a] EXCEPT !.status = "rejected", !.reviewed_at = TRUE,
                        !.reviewed_by = rejectorId, !.rejection_reason = reason]
     ELSE ap[a]]

\* a cascade that rejects the siblings without recording a reason
rejectOtherWithoutReason(ap, projectId, acceptedApplicationId, rejectorId, reason, statuses) ==
  [a \in AppIds |->
     IF ProjectOf(a) = projectId /\ a # acceptedApplicationId /\ ap[a].status \in statuses
     THEN [ap[a] EXCEPT !.status = "rejected", !.reviewed_at = TRUE,
                        !.reviewed_by = rejectorId]
     ELSE ap[a]]

rejectOtherApplications(ap, projectId, acceptedApplicationId, rejectorId, reason, statuses) ==
  [a \in AppIds |->
     IF ProjectOf(a) = projectId /\ a # acceptedApplicationId /\ ap[a].status \in statuses
     THEN [ap[a] EXCEPT !.status = "rejected", !.reviewed_at = TRUE,
                        !.reviewed_by = rejectorId, !.rejection_reason = reason]
     ELSE ap[a]]

\* PUT /:applicationId/approve, approveApplication
ApproveStart(s, u, a, fr) ==
  Begin(s, IF RoleOf(u) # "client"
           THEN Finish(NewRequest(s, "approve", u, a), "forbidden_role")
           ELSE LET r == Load([NewRequest(s, "approve", u, a) EXCEPT !.final_rate = fr],
                              a, u, "client")
                IN IF r.pc # "loaded" THEN r
                   ELSE IF ~canBeAccepted(r.snap) THEN Finish(r, "invalid_state")
                   ELSE IF r.psnap.client_id # u THEN Finish(r, "not_owner")
                   ELSE [r EXCEPT !.pc = "updateApplication", !.pre = Stored])

ApproveUpdateApplication(s) ==
  /\ req[s].op = "approve" /\ req[s].pc = "updateApplication"
  /\ UpdateApplication(s, "updateProject",
       [apps[req[s].app] EXCEPT !.status = "accepted",
                                !.reviewed_at = TRUE,
                                !.reviewed_by = req[s].actor])

\* application.project.update(...)
ApproveUpdateProject(s) ==
  /\ req[s].op = "approve" /\ req[s].pc = "updateProject"
  /\ LET r == req[s]
     IN /\ projects' = [projects EXCEPT ![r.proj] =
             [@ EXCEPT !.assigned_professional_id = ProfessionalOf(r.app),
                       !.status = "in_progress",
                       !.final_amount = IF r.final_rate # 0 THEN r.final_rate
                                        ELSE r.snap.proposed_rate]]
        /\ req' = [Disturb(req, s, r.proj) EXCEPT ![s] = [r EXCEPT !.pc = "rejectOthers"]]
  /\ UNCHANGED <<apps, started, scoring, login>>

ApproveRejectOthers(s) ==
  /\ req[s].op = "approve" /\ req[s].pc = "rejectOthers"
  /\ LET r == req[s]
     IN /\ apps' = rejectOtherApplications(apps, r.proj, r.app, r.actor,
                                           ReasonOtherSelected, {"pending", "under_review"})
        /\ req' = [Disturb(req, s, r.proj) EXCEPT ![s] = Finish(r, "ok")]
  /\ UNCHANGED <<projects, started, scoring, login>>

\* ------------------------------------------------- ProjectService.assignProject
\* Project.findByPk and the ownership check
AssignStart(s, c, j, a) ==
  Begin(s, LET r0 == [Idle EXCEPT !.op = "assign", !.actor = c, !.app = a, !.proj = j,
                                  !.alone = Isolated(s, j)]
           IN IF ClientOf(j) # c THEN Finish(r0, "no_permission")
              ELSE [r0 EXCEPT !.pc = "findApplication", !.psnap = ProjectSnap(j)])

\* Application.findByPk and the project check
AssignFindApplication(s) ==
  /\ req[s].op = "assign" /\ req[s].pc = "findApplication"
  /\ LET r == req[s]
     IN req' = [req EXCEPT ![s] =
                  IF apps[r.app].status = "none" \/ ProjectOf(r.app) # r.proj
                  THEN Finish(r, "not_found")
                  ELSE [r EXCEPT !.pc = "updateProject", !.snap = SnapOf(apps[r.app]),
                                 !.pre = Stored]]
  /\ UNCHANGED <<apps, projects, started, scoring, login>>

AssignUpdateProject(s) ==
  /\ req[s].op = "assign" /\ req[s].pc = "updateProject"
  /\ LET r == req[s]
     IN /\ projects' = [projects EXCEPT ![r.proj] =
             [@ EXCEPT !.assigned_professional_id = ProfessionalOf(r.app),
                       !.status = "in_progress",
                       !.final_amount = r.snap.proposed_rate]]
        /\ req' = [Disturb(req, s, r.proj) EXCEPT ![s] = [r EXCEPT !.pc = "updateApplication"]]
  /\ UNCHANGED <<apps, started, scoring, login>>

AssignUpdateApplication(s) ==
  /\ req[s].op = "assign" /\ req[s].pc = "updateApplication"
  /\ UpdateApplication(s, "rejectOthers",
       [apps[req[s].app] EXCEPT !.status = "accepted",
                                !.reviewed_at = TRUE,
                                !.reviewed_by = req[s].actor])

AssignRejectOthers(s) ==
  /\ req[s].op = "assign" /\ req[s].pc = "rejectOthers"
  /\ LET r == req[s]
     IN /\ apps' = rejectOtherApplications(apps, r.proj, r.app, r.actor,
                                           ReasonAssigned, {"pending"})
        /\ req' = [Disturb(req, s, r.proj) EXCEPT ![s] = Finish(r, "ok")]
  /\ UNCHANGED <<projects, started, scoring, login>>

\* ------------------------------------------------- POST /:applicationId/calculate-priority
\* Professional rows of the users
ProfileOf(p) ==
  IF p = 1 THEN [present |-> TRUE, experience_years |-> 5, reviews |-> <<4, 5>>,
                 completion_rate |-> 90]
  ELSE [present |-> TRUE, experience_years |-> 12, reviews |-> <<1>>,
        completion_rate |-> 0]

\* Project.budget_max
BudgetMaxOf(j) == 1000

\* the ages an application is scored at, in whole days
RecomputeDays == {0, 30}

\* the route's role check, Application.findByPk with the professional's
\* profile, professional.getAverageRating (a read of the reviews, which no
\* handler writes) and the computation of the score
RecomputeStart(s, u, a, daysOld) ==
  Begin(s, LET r0 == NewRequest(s, "recompute", u, a)
           IN IF RoleOf(u) \notin {"admin", "client"} THEN Finish(r0, "forbidden_role")
              ELSE IF apps[a].status = "none" THEN Finish(r0, "not_found")
              ELSE [r0 EXCEPT
                      !.pc = "update", !.snap = SnapOf(apps[a]), !.pre = Stored,
                      !.days = daysOld,
                      !.score = calculatePriorityScore(
                                  findByPkForScore(apps[a], ProfileOf(ProfessionalOf(a)),
                                                   [included |-> TRUE,
                                                    budget_max |-> BudgetMaxOf(ProjectOf(a))]),
                                  daysOld)])

\* a save of the instance as it was loaded, with the new priority_score
RecomputeSaveLoaded(s) ==
  /\ req[s].op = "recompute" /\ req[s].pc = "update"
  /\ UpdateApplication(s, "done",
       [apps[req[s].app] EXCEPT !.priority_score = req[s].score,
                                !.scored_days = req[s].days,
                                !.status = req[s].snap.status])

\* application.update({ priority_score: score })
RecomputeUpdate(s) ==
  /\ req[s].op = "recompute" /\ req[s].pc = "update"
  /\ UpdateApplication(s, "done",
       [apps[req[s].app] EXCEPT !.priority_score = req[s].score,
                                !.scored_days = req[s].days])

\* the HTTP status a route answers with: its role check, its catch block
\* matching the error's message, and the error middleware for what the catch
\* block passes on
StatusCode(op, result) ==
  IF result = "ok" THEN (IF op = "submit" THEN 201 ELSE 200)
  ELSE IF result = "forbidden_role" THEN 403
  ELSE IF op = "get"
       THEN (IF result = "not_found" THEN 404
             ELSE IF result = "no_permission" THEN 403 ELSE 500)
  ELSE IF op \in {"evaluate", "approve", "reject"}
       THEN (IF result \in {"not_found", "no_permission"} THEN 404
             ELSE IF result = "invalid_state" THEN 400 ELSE 500)
  ELSE IF op = "withdraw"
       THEN (IF result \in {"not_found", "not_owner"} THEN 404
             ELSE IF result = "invalid_state" THEN 400 ELSE 500)
  ELSE IF op = "submit"
       THEN (IF result = "unique_violation" THEN 409 ELSE 500)
  ELSE IF op = "recompute"
       THEN (IF result = "not_found" THEN 404 ELSE 500)
  ELSE 500

\* the handlers that end with a try block that notifies
Notifying == {"submit", "evaluate", "approve", "reject", "withdraw", "assign"}

\* the handler of the record has made its writes, fixed what it returns
\* and not yet run the try block that ends it
NeedsNotify(r) ==
  r.pc = "done" /\ r.result = "ok" /\ r.op \in Notifying /\ r.notified = "none"

\* a notification whose failure leaves the handler
NotifyUncaught(s, sent) ==
  /\ NeedsNotify(req[s])
  /\ req' = [req EXCEPT ![s] =
               IF sent THEN [req[s] EXCEPT !.notified = "sent"]
               ELSE [req[s] EXCEPT !.notified = "failed",
                                   !.result = "notification_failure"]]
  /\ UNCHANGED <<apps, projects, started, scoring, login>>

\* the try block that ends submit, evaluate, approve, reject, withdraw and
\* assign: the notification or email is sent, or its failure is caught and
\* logged
Notify(s, sent) ==
  /\ NeedsNotify(req[s])
  /\ req' = [req EXCEPT ![s].notified = IF sent THEN "sent" ELSE "failed"]
  /\ UNCHANGED <<apps, projects, started, scoring, login>>

\* res.json / next(error): the response of a finished handler is sent, after
\* the try block that ends the handler if that has not run
Respond(s) ==
  /\ req[s].pc = "done"
  /\ req' = [req EXCEPT ![s] = Idle]
  /\ UNCHANGED <<apps, projects, started, scoring, login>>

\* the response of a handler whose closing try block has run
RespondNotified(s) ==
  /\ ~NeedsNotify(req[s])
  /\ Respond(s)

\* ------------------------------------------------- persistence layer
\* a statement of approveApplication fails: the exception leaves the
\* handler, what the handler wrote before stays written (no transaction is
\* open)
StatementFails(s) ==
  /\ req[s].op = "approve" /\ InFlight(req[s])
  /\ req' = [req EXCEPT ![s] = Finish(req[s], "persistence_failure")]
  /\ UNCHANGED <<apps, projects, started, scoring, login>>

\* the deadline policy: pending / under_review -> expired
Expire(a) ==
  /\ started < MaxRequests
  /\ apps[a].status \in OpenStatuses
  /\ apps' = [apps EXCEPT ![a].status = "expired"]
  /\ req' = Disturb(req, 0, ProjectOf(a))
  /\ started' = started + 1
  /\ UNCHANGED <<projects, scoring, login>>

Handlers ==
  \/ \E s \in Slots, u \in Users, j \in Projects, late \in BOOLEAN : SubmitStart(s, u, j, late)
  \/ \E s \in Slots : SubmitFindExisting(s)
  \/ \E s \in Slots, rate \in ProposedRates : SubmitCreate(s, rate)
  \/ \E s \in Slots : SubmitIncrement(s)
  \/ \E s \in Slots, u \in Users, a \in AppIds : GetStart(s, u, a)
  \/ \E s \in Slots, u \in Users, fp \in Professionals \cup {NoUser},
          fj \in Projects \cup {NoProject} : ListStart(s, u, fp, fj)
  \/ \E s \in Slots, u \in Users, a \in AppIds, ps \in LifecycleScores :
       EvaluateStart(s, u, a, ps)
  \/ \E s \in Slots : EvaluateUpdate(s)
  \/ \E s \in Slots, u \in Users, a \in AppIds : RejectStart(s, u, a)
  \/ \E s \in Slots : RejectUpdate(s)
  \/ \E s \in Slots, u \in Users, a \in AppIds : WithdrawStart(s, u, a)
  \/ \E s \in Slots : WithdrawUpdate(s)
  \/ \E s \in Slots, u \in Users, a \in AppIds, fr \in FinalRates : ApproveStart(s, u, a, fr)
  \/ \E s \in Slots : ApproveUpdateApplication(s)
  \/ \E s \in Slots : ApproveUpdateProject(s)
  \/ \E s \in Slots : ApproveRejectOthers(s)
  \/ \E s \in Slots, c \in Clients, j \in Projects, a \in AppIds : AssignStart(s, c, j, a)
  \/ \E s \in Slots : AssignFindApplication(s)
  \/ \E s \in Slots : AssignUpdateProject(s)
  \/ \E s \in Slots : AssignUpdateApplication(s)
  \/ \E s \in Slots : AssignRejectOthers(s)
  \/ \E s \in Slots : Respond(s)

Next ==
  \/ Handlers
  \/ \E s \in Slots : StatementFails(s)
  \/ \E a \in AppIds : Expire(a)

\* every interleaving of the handlers, any statement of which may fail, and
\* of the deadline policy
Spec == Init /\ [][Next]_vars

\* the handlers that write applications, and the recompute of the score
NextRecompute ==
  \/ \E s \in Slots, u \in Users, j \in Projects, late \in BOOLEAN : SubmitStart(s, u, j, late)
  \/ \E s \in Slots : SubmitFindExisting(s)
  \/ \E s \in Slots, rate \in ProposedRates : SubmitCreate(s, rate)
  \/ \E s \in Slots : SubmitIncrement(s)
  \/ \E s \in Slots, u \in Users, a \in AppIds, ps \in EvaluateScores :
       EvaluateStart(s, u, a, ps)
  \/ \E s \in Slots : EvaluateUpdate(s)
  \/ \E s \in Slots, u \in Users, a \in AppIds : RejectStart(s, u, a)
  \/ \E s \in Slots : RejectUpdate(s)
  \/ \E s \in Slots, u \in Users, a \in AppIds : WithdrawStart(s, u, a)
  \/ \E s \in Slots : WithdrawUpdate(s)
  \/ \E s \in Slots, u \in Users, a \in AppIds, fr \in FinalRates : ApproveStart(s, u, a, fr)
  \/ \E s \in Slots : ApproveUpdateApplication(s)
  \/ \E s \in Slots : ApproveUpdateProject(s)
  \/ \E s \in Slots : ApproveRejectOthers(s)
  \/ \E s \in Slots, u \in Users, a \in AppIds, daysOld \in RecomputeDays :
       RecomputeStart(s, u, a, daysOld)
  \/ \E s \in Slots : RecomputeUpdate(s)
  \/ \E s \in Slots : Respond(s)

\* every interleaving of a recompute of the score with the handlers that
\* write applications
SpecRecompute == Init /\ [][NextRecompute]_vars

\* submit, evaluate, approve, reject and withdraw, each with the try block
\* that ends it as a step of its own
NextNotify ==
  \/ \E s \in Slots, u \in Users, j \in Projects, late \in BOOLEAN : SubmitStart(s, u, j, late)
  \/ \E s \in Slots : SubmitFindExisting(s)
  \/ \E s \in Slots, rate \in ProposedRates : SubmitCreate(s, rate)
  \/ \E s \in Slots : SubmitIncrement(s)
  \/ \E s \in Slots, u \in Users, a \in AppIds, ps \in LifecycleScores :
       EvaluateStart(s, u, a, ps)
  \/ \E s \in Slots : EvaluateUpdate(s)
  \/ \E s \in Slots, u \in Users, a \in AppIds : RejectStart(s, u, a)
  \/ \E s \in Slots : RejectUpdate(s)
  \/ \E s \in Slots, u \in Users, a \in AppIds : WithdrawStart(s, u, a)
  \/ \E s \in Slots : WithdrawUpdate(s)
  \/ \E s \in Slots, u \in Users, a \in AppIds, fr \in FinalRates : ApproveStart(s, u, a, fr)
  \/ \E s \in Slots : ApproveUpdateApplication(s)
  \/ \E s \in Slots : ApproveUpdateProject(s)
  \/ \E s \in Slots : ApproveRejectOthers(s)
  \/ \E s \in Slots, sent \in BOOLEAN : Notify(s, sent)
  \/ \E s \in Slots : RespondNotified(s)

\* every interleaving of the handlers that notify, over a notifier that may
\* fail
SpecNotify == Init /\ [][NextNotify]_vars

\* every interleaving of the handlers alone, over a persistence layer that
\* never fails
SpecHandlers == Init /\ [][Handlers]_vars

\* ------------------------------------------------- the scorer on its own
InitScore ==
  /\ Submitted({})
  /\ req = [s \in Slots |-> Idle]
  /\ started = 0
  /\ scoring \in ScoreInputs
  /\ login = NoLogin

\* calculatePriorityScore applied to an application of the drawn inputs
Score ==
  /\ scoring.score = NotScored
  /\ scoring' =
       [scoring EXCEPT !.score =
          calculatePriorityScore(
            findByPkForScore([NoRow EXCEPT !.proposed_rate = scoring.proposed_rate,
                                           !.priority_score = BaselineScore],
                             [present |-> scoring.present,
                              experience_years |-> scoring.experience_years,
                              reviews |-> scoring.reviews,
                              completion_rate |-> scoring.completion_rate],
                             [included |-> TRUE, budget_max |-> scoring.budget_max]),
            scoring.daysOld)]
  /\ UNCHANGED <<apps, projects, req, started, login>>

\* the scorer applied once to every input of the bounded sets
SpecScore == InitScore /\ [][Score]_vars

\* ------------------------------------------------- AuthService.login
Passwords == {"right", "wrong"}

InitLogin ==
  /\ Submitted({})
  /\ req = [s \in Slots |-> Idle]
  /\ started = 0
  /\ scoring = NoScoring
  /\ \E active \in BOOLEAN : login = LoginState([NewUser EXCEPT !.is_active = active])

\* user.locked_until && user.locked_until > new Date()
isLocked(user, now) == user.locked_until # NoTime /\ user.locked_until > now

LoginFinish(r, res) == [r EXCEPT !.pc = "done", !.result = res]

\* User.findOne({ where: { email } }) and the checks of what it returned
\* (known: a user has the email)
LoginStart(s, known, password) ==
  /\ login.session[s].pc = "idle"
  /\ login.logins < MaxLogins
  /\ login' = [login EXCEPT
        !.logins = @ + 1,
        !.session[s] =
          LET r == [NoSession EXCEPT !.password = password]
          IN IF ~known THEN LoginFinish(r, "invalid_credentials")
             ELSE IF isLocked(login.user, login.now) THEN LoginFinish(r, "locked")
             ELSE [r EXCEPT !.pc = "checkPassword",
                            !.attempts = login.user.login_attempts,
                            !.active = login.user.is_active]]
  /\ UNCHANGED <<apps, projects, req, started, scoring>>

\* user.checkPassword(password), and the is_active check of a right password
LoginCheckPassword(s) ==
  /\ login.session[s].pc = "checkPassword"
  /\ LET r == login.session[s]
     IN login' = IF r.password = "wrong"
                 THEN [login EXCEPT !.wrong = @ + 1,
                                    !.session[s] = [r EXCEPT !.pc = "handleFailedLogin"]]
                 ELSE IF ~r.active
                 THEN [login EXCEPT !.session[s] = LoginFinish(r, "inactive")]
                 ELSE [login EXCEPT !.session[s] = [r EXCEPT !.pc = "update"]]
  /\ UNCHANGED <<apps, projects, req, started, scoring>>

\* handleFailedLogin(user): user is the instance login loaded
handleFailedLogin(s) ==
  /\ login.session[s].pc = "handleFailedLogin"
  /\ LET newAttempts == login.session[s].attempts + 1
     IN login' = [login EXCEPT
          !.user = IF newAttempts >= maxAttempts
                   THEN [@ EXCEPT !.login_attempts = newAttempts,
                                  !.locked_until = login.now + lockoutTime]
                   ELSE [@ EXCEPT !.login_attempts = newAttempts],
          !.session[s] = LoginFinish(@, "invalid_credentials")]
  /\ UNCHANGED <<apps, projects, req, started, scoring>>

\* user.update({ login_attempts: 0, locked_until: null, last_login })
LoginUpdate(s) ==
  /\ login.session[s].pc = "update"
  /\ login' = [login EXCEPT !.user = [@ EXCEPT !.login_attempts = 0,
                                               !.locked_until = NoTime],
                            !.wrong = 0,
                            !.session[s] = [@ EXCEPT !.pc = "saveRefreshToken"]]
  /\ UNCHANGED <<apps, projects, req, started, scoring>>

\* user.update({ metadata }) and the return of the tokens
LoginSaveRefreshToken(s) ==
  /\ login.session[s].pc = "saveRefreshToken"
  /\ login' = [login EXCEPT !.session[s] = LoginFinish(@, "ok")]
  /\ UNCHANGED <<apps, projects, req, started, scoring>>

\* the response of a finished login is sent
LoginRespond(s) ==
  /\ login.session[s].pc = "done"
  /\ login' = [login EXCEPT !.session[s] = NoSession]
  /\ UNCHANGED <<apps, projects, req, started, scoring>>

\* new Date(): lockoutTime minutes pass
Tick ==
  /\ login.now + lockoutTime <= MaxClock
  /\ login' = [login EXCEPT !.now = @ + lockoutTime]
  /\ UNCHANGED <<apps, projects, req, started, scoring>>

NextLogin ==
  \/ \E s \in Slots, known \in BOOLEAN, password \in Passwords : LoginStart(s, known, password)
  \/ \E s \in Slots : LoginCheckPassword(s)
  \/ \E s \in Slots : handleFailedLogin(s)
  \/ \E s \in Slots : LoginUpdate(s)
  \/ \E s \in Slots : LoginSaveRefreshToken(s)
  \/ \E s \in Slots : LoginRespond(s)
  \/ Tick

\* every interleaving of the logins to one account
SpecLogin == InitLogin /\ [][NextLogin]_vars

\* ------------------------------------------------------------------ claims
AppsOf(j) == {a \in AppIds : ProjectOf(a) = j}
Quiescent == \A s \in Slots : ~InFlight(req[s])

\* slot s takes a new request in this step
Begins(s) == Free(s) /\ req'[s].pc # "idle"
\* slot s executes a statement of the handler it has in flight
Steps(s) == InFlight(req[s]) /\ req'[s].pc # req[s].pc

\* C1: every project has at most one accepted application
AtMostOneAccepted ==
  \A j \in Projects :
    Cardinality({a \in AppsOf(j) : apps[a].status = "accepted"}) <= 1

\* C2: of two overlapping approvals of two open applications of one project,
\* exactly one returns success and the other the ConflictAssignment error
ApproveRaceHasOneWinner ==
  \A s, t \in Slots :
    ( /\ s # t
      /\ req[s].op = "approve" /\ req[t].op = "approve"
      /\ req[s].pc = "done" /\ req[t].pc = "done"
      /\ req[s].app # req[t].app /\ req[s].proj = req[t].proj
      /\ req[s].snap.status \in OpenStatuses /\ req[t].snap.status \in OpenStatuses
      /\ ~req[s].alone /\ ~req[t].alone )
    => \/ req[s].result = "ok" /\ req[t].result = "conflict_assignment"
       \/ req[t].result = "ok" /\ req[s].result = "conflict_assignment"

\* C3: an approval that returned success, with nothing else touching the
\* project since its first read, leaves the application accepted and reviewed
\* by the approver, the project assigned to its professional, every sibling
\* that was open rejected with a reason, and every sibling that was final as
\* it was
ApproveAloneCascades ==
  \A s \in Slots :
    (req[s].op = "approve" /\ req[s].pc = "done" /\ req[s].result = "ok" /\ req[s].alone)
    => LET r == req[s]
       IN /\ apps[r.app].status = "accepted"
          /\ apps[r.app].reviewed_by = r.actor
          /\ projects[r.proj].assigned_professional_id = ProfessionalOf(r.app)
          /\ \A b \in AppsOf(r.proj) \ {r.app} :
               /\ r.pre.apps[b].status \in OpenStatuses
                    => /\ apps[b].status = "rejected"
                       /\ apps[b].rejection_reason # NoReason
               /\ r.pre.apps[b].status \notin OpenStatuses => apps[b] = r.pre.apps[b]

\* C3 witness: an isolated approval has returned success, having rejected a
\* sibling that was under review
ApproveAloneCascadesWitness ==
  \E s \in Slots :
    /\ req[s].op = "approve" /\ req[s].pc = "done" /\ req[s].result = "ok" /\ req[s].alone
    /\ \E b \in AppsOf(req[s].proj) \ {req[s].app} :
         req[s].pre.apps[b].status = "under_review" /\ apps[b].status = "rejected"

\* C4: with no request in flight, a project with an accepted application has
\* no other application pending or under review
QuiescentCascadeComplete ==
  Quiescent =>
    \A j \in Projects : \A a, b \in AppsOf(j) :
      (a # b /\ apps[a].status = "accepted") => apps[b].status \notin OpenStatuses

\* C5: a read never returns an accepted application together with a project
\* that is not yet taken by the accept
ReadsSeeWholeAccept ==
  \A s \in Slots :
    (req[s].op = "get" /\ req[s].pc = "done" /\ req[s].result = "ok"
       /\ req[s].snap.status = "accepted")
    => req[s].psnap.status = "in_progress"

\* C6: an approval that failed at one of its statements, with nothing else
\* touching the project, leaves the store as it found it
ApproveAllOrNothing ==
  \A s \in Slots :
    (req[s].op = "approve" /\ req[s].pc = "done"
       /\ req[s].result = "persistence_failure" /\ req[s].alone)
    => (apps = req[s].pre.apps /\ projects = req[s].pre.projects)

\* C7: no statement of evaluate, approve, reject, withdraw or of the cascade
\* changes the status of an application that is accepted, rejected, withdrawn
\* or expired
FinalStatusesAbsorbing ==
  [][ (\E s \in Slots : Steps(s) /\ req[s].op \in {"evaluate", "approve", "reject", "withdraw"})
      => \A a \in AppIds :
           apps[a].status \in FinalStatuses => apps'[a].status = apps[a].status ]_vars

\* the status an operation asks for
Requested(op) == CASE op = "evaluate" -> "under_review"
                   [] op = "approve" -> "accepted"
                   [] op = "reject" -> "rejected"
                   [] op = "withdraw" -> "withdrawn"

\* the transition table
LegalEdge(from, to, u, a) ==
  \/ from = "pending" /\ to = "under_review"
       /\ RoleOf(u) = "client" /\ u = ClientOf(ProjectOf(a))
  \/ from \in OpenStatuses /\ to \in {"accepted", "rejected"}
       /\ RoleOf(u) = "client" /\ u = ClientOf(ProjectOf(a))
  \/ from \in OpenStatuses /\ to = "withdrawn"
       /\ RoleOf(u) = "professional" /\ u = ProfessionalOf(a)

\* C8: a request of evaluate, approve, reject or withdraw that ran with
\* nothing else touching the project succeeds and moves the status along its
\* edge when (from, to, actor) is in the transition table, and otherwise
\* fails and leaves the status as it was
SequentialTransitionsFollowTable ==
  \A s \in Slots :
    (req[s].op \in {"evaluate", "approve", "reject", "withdraw"}
       /\ req[s].pc = "done" /\ req[s].alone /\ apps[req[s].app].status # "none")
    => LET r == req[s]
           from == IF r.snap.status = "none" THEN apps[r.app].status ELSE r.snap.status
       IN IF LegalEdge(from, Requested(r.op), r.actor, r.app)
          THEN r.result = "ok" /\ apps[r.app].status = Requested(r.op)
          ELSE r.result # "ok" /\ apps[r.app].status = from

\* C9: the statement of approve that assigns the project, finding the project
\* already assigned or no longer open, returns ConflictAssignment and writes
\* nothing
ApproveClaimsProject ==
  [][ \A s \in Slots :
        ( /\ Steps(s) /\ req[s].op = "approve" /\ req[s].pc = "updateProject"
          /\ \/ projects[req[s].proj].assigned_professional_id # NoUser
             \/ projects[req[s].proj].status # "open" )
        => ( /\ req'[s].result = "conflict_assignment"
             /\ apps' = apps /\ projects' = projects ) ]_vars

\* C10: an approve requested on an application that is accepted, rejected,
\* withdrawn or expired fails at once, and writes neither the project nor any
\* application
ApproveOnFinalFails ==
  [][ \A s \in Slots :
        (Begins(s) /\ req'[s].op = "approve" /\ apps[req'[s].app].status \in FinalStatuses)
        => ( /\ req'[s].pc = "done" /\ req'[s].result # "ok"
             /\ apps' = apps /\ projects' = projects ) ]_vars

\* C10 witness: the owner's approve of a withdrawn application was refused
\* for the application's status
ApproveOnFinalFailsWitness ==
  \E s \in Slots :
    /\ req[s].op = "approve" /\ req[s].pc = "done" /\ req[s].result = "invalid_state"
    /\ req[s].snap.status = "withdrawn" /\ apps[req[s].app].status = "withdrawn"
    /\ req[s].actor = ClientOf(req[s].proj)

\* C11: a withdraw goes ahead only for the application's author on a pending
\* or under_review application, and a withdraw by another professional is
\* answered 403 Forbidden and changes nothing
WithdrawOnlyByAuthor ==
  [][ \A s \in Slots :
        (Begins(s) /\ req'[s].op = "withdraw" /\ apps[req'[s].app].status # "none")
        => LET r == req'[s]
           IN /\ (r.pc # "done" \/ r.result = "ok")
                   => (r.actor = ProfessionalOf(r.app) /\ apps[r.app].status \in OpenStatuses)
              /\ (RoleOf(r.actor) = "professional" /\ r.actor # ProfessionalOf(r.app))
                   => ( /\ r.pc = "done" /\ StatusCode(r.op, r.result) = 403
                        /\ apps' = apps /\ projects' = projects ) ]_vars

\* C12: a get of an existing application returns it only to an admin, to the
\* professional who wrote it or to the client who owns its project; any other
\* actor is answered with the permission error
GetOnlyForParties ==
  \A s \in Slots :
    (req[s].op = "get" /\ req[s].pc = "done" /\ req[s].result # "not_found")
    => LET r == req[s]
       IN IF \/ RoleOf(r.actor) = "admin"
             \/ RoleOf(r.actor) = "professional" /\ r.actor = ProfessionalOf(r.app)
             \/ RoleOf(r.actor) = "client" /\ r.actor = ClientOf(r.proj)
          THEN r.result = "ok"
          ELSE r.result = "no_permission" /\ StatusCode(r.op, r.result) = 403

\* C12 witness: a super_admin's get of an existing application was refused
GetOnlyForPartiesWitness ==
  \E s \in Slots :
    /\ req[s].op = "get" /\ req[s].pc = "done" /\ req[s].result = "no_permission"
    /\ RoleOf(req[s].actor) = "super_admin" /\ apps[req[s].app].status # "none"

\* C13: every application a list returns is one that a get by the same actor
\* would return, whatever filters the actor sent
ListReturnsOnlyReadable ==
  \A s \in Slots :
    (req[s].op = "list" /\ req[s].pc = "done")
    => \A a \in req[s].rows :
         canUserAccessApplication(a, [client_id |-> ClientOf(ProjectOf(a))],
                                  req[s].actor, RoleOf(req[s].actor))

\* C14: an evaluate, approve or reject requested by a client who does not own
\* the application's project fails at once and writes neither an application
\* nor the project
NonOwnerClientRefused ==
  [][ \A s \in Slots :
        ( /\ Begins(s) /\ req'[s].op \in {"evaluate", "approve", "reject"}
          /\ apps[req'[s].app].status # "none"
          /\ RoleOf(req'[s].actor) = "client"
          /\ req'[s].actor # ClientOf(ProjectOf(req'[s].app)) )
        => ( /\ req'[s].pc = "done" /\ req'[s].result # "ok"
             /\ apps' = apps /\ projects' = projects ) ]_vars

\* C14 witness: an evaluate, approve or reject by the other client was refused
\* on an application that is still pending
NonOwnerClientRefusedWitness ==
  \E s \in Slots :
    /\ req[s].op \in {"evaluate", "approve", "reject"} /\ req[s].pc = "done"
    /\ req[s].result = "no_permission" /\ RoleOf(req[s].actor) = "client"
    /\ req[s].actor # ClientOf(ProjectOf(req[s].app))
    /\ apps[req[s].app].status = "pending"

\* the errors that say the pair has an application already
DuplicateApplication == {"duplicate_application", "unique_violation"}

\* C15 as stated: no pair ever has two applications, and a submit for a pair
\* that has one fails with DuplicateApplication, whatever the status of the
\* application
OnePerPairAndDuplicateError ==
  [][ /\ \A a \in AppIds : apps'[a].copies <= 1
      /\ \A s \in Slots :
           /\ ( /\ Begins(s) /\ req'[s].op = "submit"
                /\ RoleOf(req'[s].actor) = "professional"
                /\ apps[req'[s].app].status # "none" )
              => (req'[s].pc = "done" => req'[s].result \in DuplicateApplication)
           /\ ( /\ Steps(s) /\ req[s].op = "submit"
                /\ req[s].pc \in {"findExisting", "create"}
                /\ apps[req[s].app].status # "none" )
              => ( /\ req'[s].pc = "done" /\ req'[s].result \in DuplicateApplication
                   /\ apps' = apps /\ projects' = projects ) ]_vars

\* C15 amended: no pair ever has two applications, and a submit for a pair
\* that has one fails whatever the status of the application: with
\* ProjectNotOpen when the project is not open, with the deadline error when
\* the application deadline has passed, and otherwise with
\* DuplicateApplication
OnePerPairAndSubmitRefused ==
  [][ /\ \A a \in AppIds : apps'[a].copies <= 1
      /\ \A s \in Slots :
           /\ ( /\ Begins(s) /\ req'[s].op = "submit"
                /\ RoleOf(req'[s].actor) = "professional"
                /\ apps[req'[s].app].status # "none" )
              => /\ projects[req'[s].proj].status # "open"
                      => (req'[s].pc = "done" /\ req'[s].result = "project_not_open")
                 /\ projects[req'[s].proj].status = "open"
                      => \/ req'[s].pc = "done" /\ req'[s].result = "deadline_passed"
                         \/ req'[s].pc = "findExisting"
                 /\ apps' = apps /\ projects' = projects
           /\ ( /\ Steps(s) /\ req[s].op = "submit"
                /\ req[s].pc \in {"findExisting", "create"}
                /\ apps[req[s].app].status # "none" )
              => ( /\ req'[s].pc = "done" /\ req'[s].result \in DuplicateApplication
                   /\ apps' = apps /\ projects' = projects ) ]_vars

\* C15 witness: of two overlapping submits of one professional to one project
\* the second was stopped by the unique index
OnePerPairWitness ==
  \E s \in Slots :
    /\ req[s].op = "submit" /\ req[s].pc = "done" /\ req[s].result = "unique_violation"
    /\ apps[req[s].app].copies = 1

\* C16: a professional's submit to a project that is not open fails at once
\* with ProjectNotOpen, creates no application and leaves the project's
\* application_count as it was
SubmitToClosedProjectRefused ==
  [][ \A s \in Slots :
        ( /\ Begins(s) /\ req'[s].op = "submit"
          /\ RoleOf(req'[s].actor) = "professional"
          /\ projects[req'[s].proj].status # "open" )
        => ( /\ req'[s].pc = "done" /\ req'[s].result = "project_not_open"
             /\ apps' = apps /\ projects' = projects ) ]_vars

\* C16 witness: a professional without an application was refused by a
\* project in progress
SubmitToClosedProjectRefusedWitness ==
  \E s \in Slots :
    /\ req[s].op = "submit" /\ req[s].pc = "done" /\ req[s].result = "project_not_open"
    /\ projects[req[s].proj].status = "in_progress"
    /\ apps[req[s].app].status = "none"

\* the rate bonus of the scoring formula
rateBonus(proposedRate, budgetMax) ==
  IF 10 * proposedRate <= 8 * budgetMax THEN 100
  ELSE IF 10 * proposedRate <= 9 * budgetMax THEN 50 ELSE 0

\* the scoring formula
FormulaScore(experienceYears, averageRating, completionRatePercent,
             proposedRate, budgetMax, daysOld) ==
  Max(0, Min(1000, 500 + Min(experienceYears * 2, 20) * 10
                       + (averageRating - 30) * 5
                       + completionRatePercent
                       + rateBonus(proposedRate, budgetMax)
                       - Max(daysOld - 1, 0) * 50))

\* C17: for a professional with a profile and reviews and a project with a
\* budget, the score returned is the formula's: baseline 50, experience,
\* rating, completion rate and rate bonus added, staleness subtracted, clamped
\* to [0, 100]; 5 years, 4.5 stars, 90 %, 800 of 1000, today: 86.5
ScoreFollowsFormula ==
  ( /\ scoring.score # NotScored /\ scoring.present
    /\ scoring.reviews # <<>> /\ scoring.budget_max > 0 )
  => scoring.score =
       FormulaScore(scoring.experience_years, getAverageRating(scoring.reviews),
                    scoring.completion_rate, scoring.proposed_rate,
                    scoring.budget_max, scoring.daysOld)

\* a statement of slot s that writes the row of its application
Writes(s, op, pc) == Steps(s) /\ req[s].op = op /\ req[s].pc = pc /\ apps' # apps

\* C18: the priority_score of every application lies in [0, 100]: a new
\* application gets the baseline, an evaluation stores the score the client
\* sent, and a recompute stores the clamped score it returns
PriorityScoreInRange ==
  /\ [](\A a \in AppIds :
          apps[a].status # "none" => apps[a].priority_score \in 0..1000)
  /\ [][ \A s \in Slots :
           /\ Writes(s, "submit", "create")
                => apps'[req[s].app].priority_score = BaselineScore
           /\ Writes(s, "evaluate", "update")
                => apps'[req[s].app].priority_score = req[s].score
           /\ Writes(s, "recompute", "update")
                => /\ apps'[req[s].app].priority_score = req'[s].score
                   /\ req'[s].score \in 0..1000 ]_vars

\* C18 witness: a recompute of an application 30 days old has stored 0, and
\* the other application holds the 100 its evaluation was sent with
PriorityScoreInRangeWitness ==
  \E s \in Slots :
    /\ req[s].op = "recompute" /\ req[s].pc = "done" /\ req[s].result = "ok"
    /\ req[s].days = 30 /\ apps[req[s].app].priority_score = 0
    /\ \E b \in AppIds \ {req[s].app} :
         apps[b].status = "under_review" /\ apps[b].priority_score = 1000

Unscored(row) == [row EXCEPT !.priority_score = 0, !.scored_days = NotScored]

\* C20: no statement of a recompute changes the project, another application,
\* or a column of its application other than priority_score, whatever
\* approve, reject or withdraw runs between its statements
RecomputeWritesOnlyScore ==
  [][ \A s \in Slots :
        ( \/ Begins(s) /\ req'[s].op = "recompute"
          \/ Steps(s) /\ req[s].op = "recompute" )
        => ( /\ projects' = projects
             /\ \A b \in AppIds : Unscored(apps'[b]) = Unscored(apps[b])
             /\ \A b \in AppIds \ {req'[s].app} : apps'[b] = apps[b] ) ]_vars

\* C20 witness: a recompute has stored its score in an application that was
\* pending when the recompute loaded it and that an approve, reject or
\* withdraw has finalized since
RecomputeWritesOnlyScoreWitness ==
  \E s \in Slots :
    /\ req[s].op = "recompute" /\ req[s].pc = "done" /\ req[s].result = "ok"
    /\ req[s].snap.status = "pending"
    /\ apps[req[s].app].status \in {"accepted", "rejected", "withdrawn"}
    /\ apps[req[s].app].priority_score = req[s].score
    /\ req[s].score # BaselineScore

\* the actors a recompute of application a is meant for
MayRecompute(u, a) ==
  \/ RoleOf(u) = "admin"
  \/ RoleOf(u) = "client" /\ u = ClientOf(ProjectOf(a))

\* C21: a recompute requested on an existing application by anyone but an
\* admin or the client who owns its project is refused at once and no
\* statement of it writes the application
RecomputeOnlyForAdminOrOwner ==
  [][ \A s \in Slots :
        /\ ( /\ Begins(s) /\ req'[s].op = "recompute"
             /\ apps[req'[s].app].status # "none"
             /\ ~MayRecompute(req'[s].actor, req'[s].app) )
           => ( /\ req'[s].pc = "done" /\ req'[s].result # "ok"
                /\ apps' = apps /\ projects' = projects )
        /\ ( /\ Steps(s) /\ req[s].op = "recompute"
             /\ ~MayRecompute(req[s].actor, req[s].app) )
           => apps' = apps ]_vars

\* C22: the try block that ends submit, evaluate, approve, reject and
\* withdraw runs when the handler has made all its writes, and, whether the
\* notification is sent or fails, leaves the result, the applications and
\* the project as they were; all the handler does after it is respond
NotifierNeverAffects ==
  [][ \A s \in Slots :
        /\ (req'[s].notified # req[s].notified /\ req'[s].notified # "none")
             => ( /\ req[s].pc = "done" /\ req[s].result = "ok"
                  /\ req'[s].pc = "done" /\ req'[s].result = "ok"
                  /\ apps' = apps /\ projects' = projects )
        /\ req[s].notified # "none"
             => \/ req'[s].pc = "idle" /\ apps' = apps /\ projects' = projects
                \/ /\ req'[s].pc = "done" /\ req'[s].result = req[s].result
                   /\ req'[s].notified = req[s].notified ]_vars

\* C22 witness: an approve whose notification failed has returned success,
\* with its application accepted and the project assigned
NotifierNeverAffectsWitness ==
  \E s \in Slots :
    /\ req[s].op = "approve" /\ req[s].pc = "done" /\ req[s].result = "ok"
    /\ req[s].notified = "failed"
    /\ apps[req[s].app].status = "accepted"
    /\ projects[req[s].proj].assigned_professional_id = ProfessionalOf(req[s].app)

\* C23: an evaluate requested by the owning client goes ahead only on a
\* pending application, which its update moves to under_review; on an
\* application in any other status it fails at once with
\* InvalidStateTransition and writes nothing
EvaluateOnlyPending ==
  [][ \A s \in Slots :
        /\ ( /\ Begins(s) /\ req'[s].op = "evaluate"
             /\ apps[req'[s].app].status # "none"
             /\ req'[s].actor = ClientOf(ProjectOf(req'[s].app)) )
           => IF apps[req'[s].app].status = "pending"
              THEN req'[s].pc = "update" /\ apps' = apps
              ELSE /\ req'[s].pc = "done" /\ req'[s].result = "invalid_state"
                   /\ apps' = apps /\ projects' = projects
        /\ Writes(s, "evaluate", "update")
           => apps'[req[s].app].status = "under_review" ]_vars

\* C24: no statement of an evaluate, a reject or a withdraw changes an
\* application other than its own, or the project's status,
\* assigned_professional_id or final_amount
SingleRowOperations ==
  [][ \A s \in Slots :
        ( \/ Begins(s) /\ req'[s].op \in {"evaluate", "reject", "withdraw"}
          \/ Steps(s) /\ req[s].op \in {"evaluate", "reject", "withdraw"} )
        => ( /\ \A b \in AppIds \ {req'[s].app} : apps'[b] = apps[b]
             /\ \A j \in Projects :
                  /\ projects'[j].status = projects[j].status
                  /\ projects'[j].assigned_professional_id
                       = projects[j].assigned_professional_id
                  /\ projects'[j].final_amount = projects[j].final_amount ) ]_vars

\* C24 witness: a reject has returned success and the other application of
\* the project is still under review, the project still open
SingleRowOperationsWitness ==
  \E s \in Slots :
    /\ req[s].op = "reject" /\ req[s].pc = "done" /\ req[s].result = "ok"
    /\ apps[req[s].app].status = "rejected"
    /\ \E b \in AppsOf(req[s].proj) \ {req[s].app} : apps[b].status = "under_review"
    /\ projects[req[s].proj].status = "open"

\* C25: a pending application has reviewed_at and reviewed_by unset, an
\* application under review, accepted or rejected has reviewed_by set to the
\* client who owns its project, and no statement of a withdraw changes
\* reviewed_at or reviewed_by
ReviewFieldsFollowStatus ==
  /\ [](\A a \in AppIds :
          /\ apps[a].status = "pending"
               => (apps[a].reviewed_by = NoUser /\ ~apps[a].reviewed_at)
          /\ apps[a].status \in {"under_review", "accepted", "rejected"}
               => apps[a].reviewed_by = ClientOf(ProjectOf(a)))
  /\ [][ \A s \in Slots :
           (Steps(s) /\ req[s].op = "withdraw")
           => \A a \in AppIds : /\ apps'[a].reviewed_by = apps[a].reviewed_by
                                 /\ apps'[a].reviewed_at = apps[a].reviewed_at ]_vars

\* C25 witness: a withdraw has returned success on an application that no
\* client had reviewed, and the other application stands rejected by the
\* owning client
ReviewFieldsFollowStatusWitness ==
  \E s \in Slots :
    /\ req[s].op = "withdraw" /\ req[s].pc = "done" /\ req[s].result = "ok"
    /\ apps[req[s].app].status = "withdrawn"
    /\ apps[req[s].app].reviewed_by = NoUser /\ ~apps[req[s].app].reviewed_at
    /\ \E b \in AppsOf(req[s].proj) \ {req[s].app} :
         /\ apps[b].status = "rejected"
         /\ apps[b].reviewed_by = ClientOf(req[s].proj) /\ apps[b].reviewed_at

\* C26: every rejected application carries a non-empty rejection_reason,
\* whether it was rejected by the client or by the cascade of an approval or
\* of an assignment
RejectedHasReason ==
  \A a \in AppIds : apps[a].status = "rejected" => apps[a].rejection_reason # NoReason

\* C26 witness: an approval has returned success and its cascade rejected the
\* sibling with the cascade's reason
RejectedHasReasonWitness ==
  \E s \in Slots :
    /\ req[s].op = "approve" /\ req[s].pc = "done" /\ req[s].result = "ok"
    /\ \E b \in AppsOf(req[s].proj) \ {req[s].app} :
         apps[b].status = "rejected" /\ apps[b].rejection_reason = ReasonOtherSelected

\* C27: assignProject goes ahead to its writes only when the application is
\* pending or under review and the project has no assigned professional;
\* otherwise it fails and changes neither the applications nor the projects
AssignObeysApproveRules ==
  [][ \A s \in Slots :
        /\ ( /\ req[s].op = "assign" /\ req[s].pc = "findApplication"
             /\ req'[s].pc = "updateProject" )
           => /\ apps[req[s].app].status \in OpenStatuses
              /\ projects[req[s].proj].assigned_professional_id = NoUser
        /\ ( /\ Begins(s) \/ Steps(s)
             /\ req'[s].op = "assign" /\ req'[s].pc = "done" /\ req'[s].result # "ok" )
           => (apps' = apps /\ projects' = projects) ]_vars

\* C28: a project assigned to a professional has that professional's
\* application in status accepted, in every state reached by submit, evaluate,
\* approve, reject and withdraw, however they interleave
AssignedProfessionalIsAccepted ==
  \A j \in Projects :
    LET P == projects[j].assigned_professional_id
    IN P # NoUser => apps[<<P, j>>].status = "accepted"

\* the number of application rows among the pairs S
RECURSIVE RowsIn(_)
RowsIn(S) ==
  IF S = {} THEN 0
  ELSE LET a == CHOOSE x \in S : TRUE IN apps[a].copies + RowsIn(S \ {a})

\* C29: when no submit is in flight, each project's application_count equals
\* the number of application rows of the project
ApplicationCountMatchesRows ==
  (\A s \in Slots : ~(req[s].op = "submit" /\ InFlight(req[s])))
  => \A j \in Projects : projects[j].application_count = RowsIn(AppsOf(j))

\* C29 witness: two overlapping submits of the same professional to the same
\* project have both returned, one with success and the other refused by the
\* unique index, and the row is counted once
ApplicationCountMatchesRowsWitness ==
  \E s, t \in Slots :
    /\ s # t /\ req[s].op = "submit" /\ req[t].op = "submit"
    /\ req[s].app = req[t].app
    /\ req[s].pc = "done" /\ req[s].result = "ok"
    /\ req[t].pc = "done" /\ req[t].result = "unique_violation"
    /\ apps[req[s].app].copies = 1
    /\ projects[req[s].proj].application_count = RowsIn(AppsOf(req[s].proj))

\* C30: counted from the last login that succeeded, at most maxAttempts
\* wrong passwords are checked before the account is locked, however the
\* logins overlap (the count is taken once every failed login has stored
\* its attempt); a lock is set lockoutTime minutes ahead; and a login that
\* finds the account locked fails, whatever its password, and leaves the
\* user row as it is
LockoutBoundsGuessing ==
  /\ []( ( /\ login.user.locked_until = NoTime
           /\ \A s \in Slots : login.session[s].pc # "handleFailedLogin" )
         => login.wrong <= maxAttempts )
  /\ [][ /\ ( /\ login'.user.locked_until # login.user.locked_until
               /\ login'.user.locked_until # NoTime )
             => login'.user.locked_until = login.now + lockoutTime
          /\ \A s \in Slots :
               ( /\ login.session[s].pc = "idle" /\ login'.session[s].pc # "idle"
                 /\ isLocked(login.user, login.now) )
               => ( /\ login'.session[s].pc = "done"
                    /\ login'.session[s].result \in {"locked", "invalid_credentials"}
                    /\ login'.user = login.user ) ]_vars
====
